---- MODULE Spec2Model ----
(***************************************************************************)
(* Model of transfer_eth.py: the retry wrapper, the fee estimation, the    *)
(* per-wallet send_eth pipeline, the ThreadPoolExecutor driven by          *)
(* process_wallets and the SIGINT handler.                                 *)
(*                                                                         *)
(* Amounts are Python integers (unbounded); the model keeps every product  *)
(* below 2^31 by using small per-gas prices.                               *)
(***************************************************************************)
EXTENDS Integers, Sequences, FiniteSets, TLC

VARIABLES cfg, node, total, mpc, next, queue, success, failed, collected,
          summary, interrupted, cancelAt, acct, probe

vars == <<cfg, node, total, mpc, next, queue, success, failed, collected,
          summary, interrupted, cancelAt, acct, probe>>

envVars == <<cfg, node, total, probe>>

mainVars == <<mpc, next, queue, success, failed, collected, summary, interrupted,
              cancelAt>>

-----------------------------------------------------------------------------
(* Bounds of the model *)

NumWallets == 2
MaxRetryLimit == 6
MaxBalance == 2
MaxPrice == 2
MaxGasSteps == 1

-----------------------------------------------------------------------------
(* Program constants *)

MIN_GAS == 21000
BACKOFF_CAP == 30
PRIORITY_FEE_GWEI == 2
\* GAS_BUFFER_MULTIPLIER = 1.15 = 23/20 before rounding to a double
BUFFER_NUM == 23
BUFFER_DEN == 20
\* web3.to_wei(x, "gwei") multiplies by 10^9; amounts here are counted in a
\* unit in which the factor is 2, so that gas * price stays below 2^31.
GWEI == 2

NoVal == -1
INVOKE == 0

ErrorKinds == {"Timeout", "ValueError", "ConnectionError"}
\* Fatal = rejection returned by the chain (web3 raises ValueError for an RPC
\* error response); Retryable = timeouts and transport errors.
Fatal == {"ValueError"}

Wallets == 0 .. (NumWallets - 1)
Balances == {MIN_GAS * b : b \in 0 .. MaxBalance} \cup {MIN_GAS * MaxBalance + 1}
Prices == 1 .. MaxPrice
Tips == 0 .. (MaxPrice - 1)
GasEstimates == {18000 + 3000 * k : k \in 0 .. MaxGasSteps}

Min(a, b) == IF a < b THEN a ELSE b
Max(a, b) == IF a > b THEN a ELSE b

\* an answer of the node (or of the local signer): a value or a raised error
Ok(v) == [ok |-> TRUE, val |-> v, err |-> "none"]
Err(e) == [ok |-> FALSE, val |-> NoVal, err |-> e]
Resp(S) == {Ok(v) : v \in S} \cup {Err(e) : e \in node.errors}

SetMin(S) == CHOOSE x \in S : \A y \in S : x <= y
SetMax(S) == CHOOSE x \in S : \A y \in S : x >= y

\* the answers the node may give during one execution
FullNode == [balances |-> Balances, gas |-> GasEstimates, prices |-> Prices,
             tips |-> Tips, errors |-> ErrorKinds]
SmallNode == [balances |-> {0, SetMax(Balances)}, gas |-> {SetMin(GasEstimates)},
              prices |-> {SetMin(Prices)}, tips |-> {SetMin(Tips)},
              errors |-> {"ConnectionError"}]

-----------------------------------------------------------------------------
(* Configuration (module level, lines 43-55) *)

DRY_RUN == cfg.DRY_RUN
USE_EIP1559 == cfg.USE_EIP1559
WAIT_FOR_RECEIPT == cfg.WAIT_FOR_RECEIPT
RETRY_LIMIT == cfg.RETRY_LIMIT
GAS_PRICE_GWEI == cfg.GAS_PRICE_GWEI
MAX_WORKERS == cfg.MAX_WORKERS

Configs(retries, workers) ==
    [DRY_RUN : BOOLEAN, USE_EIP1559 : BOOLEAN, WAIT_FOR_RECEIPT : BOOLEAN,
     RETRY_LIMIT : retries, GAS_PRICE_GWEI : {0, 1}, MAX_WORKERS : workers]

-----------------------------------------------------------------------------
(* retry (lines 106-118) *)

\* variant: the backoff is not capped
BackoffDelayUncapped(attempt) == 2 ^ attempt

\* delay = min(2 ** attempt, 30)
BackoffDelay(attempt) == Min(2 ^ attempt, BACKOFF_CAP)

\* variant: one attempt too many
ShouldRetryOffByOne(attempt, retries, e) == attempt <= retries

\* except Exception as e: if attempt < retries  -- the kind of e is not looked at
ShouldRetry(attempt, retries, e) == attempt < retries

-----------------------------------------------------------------------------
(* Fee estimation (lines 121-159) *)

to_wei_gwei(g) == g * GWEI

RECURSIVE Pow2Floor(_)
Pow2Floor(n) == IF n < 2 THEN 1 ELSE 2 * Pow2Floor(n \div 2)

\* int(base_gas * GAS_BUFFER_MULTIPLIER) in double arithmetic: the double
\* nearest 1.15 is 1.15 - 0.4 * 2^-52, so an exact product 23g/20 that is an
\* integer q is rounded below q when 0.4 * g * 2^-52 exceeds half an ulp of q.
BufferedGas(base_gas) ==
    LET q == (base_gas * BUFFER_NUM) \div BUFFER_DEN
        r == (base_gas * BUFFER_NUM) % BUFFER_DEN
    IN  IF r = 0 /\ 4 * base_gas > 5 * Pow2Floor(q) THEN q - 1 ELSE q

\* variant: the protocol minimum is not applied
GasLimitNoFloor(base_gas) == BufferedGas(base_gas)

\* gas_limit = max(int(base_gas * GAS_BUFFER_MULTIPLIER), 21_000)
GasLimit(base_gas) == Max(BufferedGas(base_gas), MIN_GAS)

\* RPC methods a fee lookup issues (none when the configured price is used)
FeeCalls ==
    IF USE_EIP1559 THEN {"fee_data"}
    ELSE IF GAS_PRICE_GWEI > 0 THEN {} ELSE {"fee_data"}

\* get_legacy_gas_price: gp is the node's answer to eth_gasPrice
get_legacy_gas_price(gp) ==
    IF GAS_PRICE_GWEI > 0 THEN Ok(to_wei_gwei(GAS_PRICE_GWEI)) ELSE gp

\* variant: the base fee is not doubled
get_eip1559_fees_no_headroom(hist, gp, tip) ==
    LET base == IF hist.ok THEN hist ELSE gp
        priority_fee == IF tip.ok THEN tip.val ELSE to_wei_gwei(PRIORITY_FEE_GWEI)
    IN  IF ~base.ok
        THEN [ok |-> FALSE, err |-> base.err, maxFeePerGas |-> NoVal,
              maxPriorityFeePerGas |-> NoVal]
        ELSE [ok |-> TRUE, err |-> "none",
              maxFeePerGas |-> base.val + priority_fee,
              maxPriorityFeePerGas |-> priority_fee]

\* get_eip1559_fees: hist, gp, tip are the node's answers to fee_history,
\* gas_price and max_priority_fee
get_eip1559_fees(hist, gp, tip) ==
    LET base == IF hist.ok THEN hist ELSE gp
        priority_fee == IF tip.ok THEN tip.val ELSE to_wei_gwei(PRIORITY_FEE_GWEI)
    IN  IF ~base.ok
        THEN [ok |-> FALSE, err |-> base.err, maxFeePerGas |-> NoVal,
              maxPriorityFeePerGas |-> NoVal]
        ELSE [ok |-> TRUE, err |-> "none",
              maxFeePerGas |-> base.val * 2 + priority_fee,
              maxPriorityFeePerGas |-> priority_fee]

\* estimate_fee: g is the node's answer to estimate_gas
estimate_fee(g, hist, gp, tip) ==
    LET gas_limit == GasLimit(g.val)
        fees == get_eip1559_fees(hist, gp, tip)
        lgp == get_legacy_gas_price(gp)
        bad(e, c) == [ok |-> FALSE, err |-> e, gas_limit |-> NoVal,
                      fee |-> NoVal, price |-> NoVal, base_gas |-> NoVal,
                      calls |-> c]
        good(p) == [ok |-> TRUE, err |-> "none", gas_limit |-> gas_limit,
                    fee |-> gas_limit * p, price |-> p, base_gas |-> g.val,
                    calls |-> {"estimate_gas"} \cup FeeCalls]
    IN  IF ~g.ok THEN bad(g.err, {"estimate_gas"})
        ELSE IF USE_EIP1559
             THEN IF ~fees.ok THEN bad(fees.err, {"estimate_gas"} \cup FeeCalls)
                  ELSE good(fees.maxFeePerGas)
             ELSE IF ~lgp.ok THEN bad(lgp.err, {"estimate_gas"} \cup FeeCalls)
                  ELSE good(lgp.val)

\* tx.update(get_eip1559_fees() if USE_EIP1559 else {"gasPrice": get_legacy_gas_price()})
tx_fee_fields(hist, gp, tip) ==
    LET fees == get_eip1559_fees(hist, gp, tip)
        lgp == get_legacy_gas_price(gp)
    IN  IF USE_EIP1559
        THEN [ok |-> fees.ok, err |-> fees.err, maxFeePerGas |-> fees.maxFeePerGas,
              maxPriorityFeePerGas |-> fees.maxPriorityFeePerGas, gasPrice |-> NoVal]
        ELSE [ok |-> lgp.ok, err |-> lgp.err, maxFeePerGas |-> NoVal,
              maxPriorityFeePerGas |-> NoVal, gasPrice |-> lgp.val]

-----------------------------------------------------------------------------
(* send_eth (lines 165-215) *)

NoTx == [nonce |-> NoVal, value |-> NoVal, gas |-> NoVal,
         maxFeePerGas |-> NoVal, maxPriorityFeePerGas |-> NoVal,
         gasPrice |-> NoVal]

Outcome(tag, value, info) == [tag |-> tag, value |-> value, info |-> info]
NoOutcome == Outcome("none", NoVal, "none")

NewAcct == [pc |-> "unsubmitted", sleeping |-> FALSE, attempt |-> 0,
            rlog |-> <<>>, fails |-> 0, rstat |-> "none", err |-> "none",
            balance |-> NoVal, gas_limit |-> NoVal, est_fee |-> NoVal,
            price |-> NoVal, value |-> NoVal, nonce |-> NoVal,
            tx |-> NoTx, sent |-> NoTx, outcome |-> NoOutcome, calls |-> {},
            signs |-> 0, sends |-> 0, receipt |-> "none", raised |-> "none",
            fut |-> "pending", submits |-> 0, base_gas |-> NoVal]

\* variant: the zero-balance test never fires
IsZeroBalanceNever(balance) == balance < 0

\* if balance == 0
IsZeroBalance(balance) == balance = 0

\* variant: a balance equal to the fee is let through
InsufficientFundsStrict(balance, est_fee) == balance < est_fee

\* if balance <= est_fee
InsufficientFunds(balance, est_fee) == balance <= est_fee

\* variant: the fee is not deducted
SweepValueWhole(balance, est_fee) == balance

\* value = balance - est_fee
SweepValue(balance, est_fee) == balance - est_fee

\* variant: the generic except clause is missing
CaughtNarrow(e) == e \in {"ValueError", "Timeout"}

\* except (ValueError, Timeout) / except Exception: every Exception is caught
Caught(e) == e \in {"ValueError", "Timeout"} \/ e \in ErrorKinds

\* the except clauses of send_eth: the error is logged, send_eth returns None
\* otherwise the error leaves send_eth and is stored in the future
Except(a, e) ==
    IF Caught(e)
    THEN [a EXCEPT !.pc = "done", !.raised = e, !.fut = "result",
                   !.outcome = Outcome("Failed", NoVal, e)]
    ELSE [a EXCEPT !.pc = "done", !.raised = e, !.fut = "exception"]

\* send_eth returns None
Return(a) == [a EXCEPT !.pc = "done", !.fut = "result"]

\* entry of a retry(...) call: attempt = 0
EnterRetry(a, op) == [a EXCEPT !.pc = op, !.attempt = 0, !.sleeping = FALSE]

\* one invocation of fn has been made inside retry
Invoked(a, names) ==
    [a EXCEPT !.rlog = (IF a.attempt = 0 THEN <<>> ELSE a.rlog) \o <<INVOKE>>,
              !.fails = IF a.attempt = 0 THEN 0 ELSE a.fails,
              !.rstat = "running",
              !.calls = a.calls \cup names]

\* return fn(*args, **kwargs)
Returned(a) == [a EXCEPT !.rstat = "returned", !.err = "none"]

\* fn raised e inside retry: sleep and loop, or re-raise into send_eth
RetryOnError(a, e) ==
    IF ShouldRetry(a.attempt, RETRY_LIMIT, e)
    THEN [a EXCEPT !.sleeping = TRUE, !.err = e, !.fails = a.fails + 1,
                   !.rlog = a.rlog \o <<BackoffDelay(a.attempt)>>]
    ELSE Except([a EXCEPT !.err = e, !.fails = a.fails + 1, !.rstat = "raised"], e)

Set(i, a) == acct' = [acct EXCEPT ![i] = a]

Calling(i, op) == acct[i].pc = op /\ ~acct[i].sleeping

\* balance = retry(web3.eth.get_balance, address); if balance == 0: return
GetBalance(i) ==
    /\ Calling(i, "get_balance")
    /\ \E r \in Resp(node.balances) :
         LET a == Invoked(acct[i], {"get_balance"})
             b == [Returned(a) EXCEPT !.balance = r.val]
         IN  IF ~r.ok THEN Set(i, RetryOnError(a, r.err))
             ELSE IF IsZeroBalance(r.val)
                  THEN Set(i, Return([b EXCEPT
                                 !.outcome = Outcome("Skipped", NoVal, "ZeroBalance")]))
                  ELSE Set(i, EnterRetry(b, "estimate_fee"))
    /\ UNCHANGED <<envVars, mainVars>>

\* gas_limit, est_fee = retry(estimate_fee, address); if balance <= est_fee: return
EstimateFee(i) ==
    /\ Calling(i, "estimate_fee")
    /\ \E r \in {estimate_fee(g, hist, gp, tip) :
                      g \in Resp(node.gas), hist \in Resp(node.prices),
                      gp \in Resp(node.prices), tip \in Resp(node.tips)} :
         LET a == Invoked(acct[i], r.calls)
             q == [Returned(a) EXCEPT !.gas_limit = r.gas_limit, !.est_fee = r.fee,
                                      !.price = r.price, !.base_gas = r.base_gas]
         IN  IF ~r.ok THEN Set(i, RetryOnError(a, r.err))
             ELSE IF InsufficientFunds(a.balance, r.fee)
                  THEN Set(i, Return([q EXCEPT
                                 !.outcome = Outcome("Skipped", NoVal, "InsufficientFunds")]))
                  ELSE Set(i, EnterRetry([q EXCEPT !.value = SweepValue(a.balance, r.fee)],
                                         "get_transaction_count"))
    /\ UNCHANGED <<envVars, mainVars>>

\* nonce = retry(web3.eth.get_transaction_count, address); tx = {...}
GetNonce(i) ==
    /\ Calling(i, "get_transaction_count")
    /\ \E r \in Resp({0}) :
         LET a == Invoked(acct[i], {"get_transaction_count"})
         IN  IF ~r.ok THEN Set(i, RetryOnError(a, r.err))
             ELSE Set(i, [Returned(a) EXCEPT !.nonce = r.val, !.pc = "build",
                            !.tx = [NoTx EXCEPT !.nonce = r.val, !.value = a.value,
                                                !.gas = a.gas_limit]])
    /\ UNCHANGED <<envVars, mainVars>>

\* after a backoff sleep the loop of retry goes to the next attempt
Wake(i) ==
    /\ acct[i].sleeping
    /\ Set(i, [acct[i] EXCEPT !.sleeping = FALSE, !.attempt = @ + 1])
    /\ UNCHANGED <<envVars, mainVars>>

\* variant: the dry-run switch is ignored
DryRunGateIgnored(a) == [a EXCEPT !.pc = "sign"]

\* if DRY_RUN: log and return
DryRunGate(a) ==
    IF DRY_RUN
    THEN Return([a EXCEPT !.outcome = Outcome("DryRun", a.value, "none")])
    ELSE [a EXCEPT !.pc = "sign"]

\* tx.update(get_eip1559_fees() if USE_EIP1559 else {"gasPrice": ...}); if DRY_RUN
BuildTx(i) ==
    /\ Calling(i, "build")
    /\ \E f \in {tx_fee_fields(hist, gp, tip) :
                      hist \in Resp(node.prices), gp \in Resp(node.prices),
                      tip \in Resp(node.tips)} :
         LET a == [acct[i] EXCEPT !.calls = @ \cup FeeCalls]
         IN  IF ~f.ok THEN Set(i, Except(a, f.err))
             ELSE Set(i, DryRunGate([a EXCEPT
                         !.tx.maxFeePerGas = f.maxFeePerGas,
                         !.tx.maxPriorityFeePerGas = f.maxPriorityFeePerGas,
                         !.tx.gasPrice = f.gasPrice]))
    /\ UNCHANGED <<envVars, mainVars>>

\* signed = web3.eth.account.sign_transaction(tx, private_key)
Sign(i) ==
    /\ Calling(i, "sign")
    /\ \E r \in Resp({0}) :
         LET a == [acct[i] EXCEPT !.calls = @ \cup {"sign_transaction"},
                                  !.signs = @ + 1]
         IN  IF ~r.ok THEN Set(i, Except(a, r.err))
             ELSE Set(i, [a EXCEPT !.pc = "send_raw_transaction"])
    /\ UNCHANGED <<envVars, mainVars>>

\* tx_hash = web3.eth.send_raw_transaction(...); ts_log("Sent ...")
Broadcast(i) ==
    /\ Calling(i, "send_raw_transaction")
    /\ \E r \in Resp({0}) :
         LET a == [acct[i] EXCEPT !.calls = @ \cup {"send_raw_transaction"}]
         IN  IF ~r.ok THEN Set(i, Except(a, r.err))
             ELSE Set(i, [a EXCEPT !.sends = @ + 1, !.sent = a.tx,
                            !.outcome = Outcome("Sent", a.value, "none"),
                            !.pc = IF WAIT_FOR_RECEIPT THEN "wait_receipt"
                                   ELSE "tx_delay"])
    /\ UNCHANGED <<envVars, mainVars>>

\* variant: the transfer is signed and sent again when the receipt wait fails
AfterReceiptResend(a, r) ==
    IF ~r.ok THEN [a EXCEPT !.receipt = "wait failed", !.pc = "sign"]
    ELSE [a EXCEPT !.receipt = IF r.val = 1 THEN "SUCCESS" ELSE "FAILED",
                   !.pc = "tx_delay"]

\* variant: the receipt wait has no try/except of its own
AfterReceiptUnguarded(a, r) ==
    IF ~r.ok THEN Except(a, r.err)
    ELSE [a EXCEPT !.receipt = IF r.val = 1 THEN "SUCCESS" ELSE "FAILED",
                   !.pc = "tx_delay"]

\* the inner try/except of lines 203-208: the status or the error is logged
AfterReceipt(a, r) ==
    [a EXCEPT !.receipt = IF ~r.ok THEN "wait failed"
                          ELSE IF r.val = 1 THEN "SUCCESS" ELSE "FAILED",
              !.pc = "tx_delay"]

\* receipt = web3.eth.wait_for_transaction_receipt(...) in its own try/except
WaitReceipt(i) ==
    /\ Calling(i, "wait_receipt")
    /\ \E r \in Resp({0, 1}) :
         Set(i, AfterReceipt([acct[i] EXCEPT
                   !.calls = @ \cup {"wait_for_transaction_receipt"}], r))
    /\ UNCHANGED <<envVars, mainVars>>

\* time.sleep(TX_DELAY_SECONDS); send_eth returns
TxDelay(i) ==
    /\ Calling(i, "tx_delay")
    /\ Set(i, Return(acct[i]))
    /\ UNCHANGED <<envVars, mainVars>>

-----------------------------------------------------------------------------
(* process_wallets (lines 221-241) and handle_interrupt (lines 247-251) *)

Running(i) == acct[i].pc \notin {"unsubmitted", "queued", "done"}
NumRunning == Cardinality({i \in Wallets : Running(i)})
Finished(i) == acct[i].pc = "done"

\* pool.submit(send_eth, addr, key, i) for the next wallet of the list
Submit ==
    /\ mpc = "submit"
    /\ next < total
    /\ Set(next, [acct[next] EXCEPT !.pc = "queued", !.submits = @ + 1])
    /\ queue' = Append(queue, next)
    /\ next' = next + 1
    /\ mpc' = IF next + 1 = total THEN "collect" ELSE "submit"
    /\ UNCHANGED <<envVars, success, failed, collected, summary, interrupted, cancelAt>>

\* variant: one thread per wallet
WorkerAvailableUnbounded == TRUE

\* ThreadPoolExecutor(max_workers=MAX_WORKERS): a thread is idle or can be created
WorkerAvailable == NumRunning < MAX_WORKERS

\* a pool thread takes the oldest work item; at most MAX_WORKERS threads exist
Start(i) ==
    /\ queue # <<>>
    /\ i = Head(queue)
    /\ WorkerAvailable
    /\ queue' = Tail(queue)
    /\ Set(i, EnterRetry([acct[i] EXCEPT !.pc = "get_balance"], "get_balance"))
    /\ UNCHANGED <<envVars, mpc, next, success, failed, collected, summary,
                   interrupted, cancelAt>>

\* for future in as_completed(futures): future.result(); success += 1
Collect(i) ==
    /\ mpc = "collect"
    /\ i < total
    /\ Finished(i)
    /\ i \notin collected
    /\ collected' = collected \cup {i}
    /\ IF acct[i].fut = "result"
       THEN success' = success + 1 /\ failed' = failed
       ELSE success' = success /\ failed' = failed + 1
    /\ UNCHANGED <<envVars, mpc, next, queue, summary, interrupted, cancelAt, acct>>

\* variant: the loop is left after the first completed future
AllCollectedFirst == collected # {}

\* as_completed(futures) is exhausted: every future has been yielded
AllCollected == collected = 0 .. (total - 1)

\* the with block is left and "Completed: ..." is logged
Summary ==
    /\ mpc = "collect"
    /\ AllCollected
    /\ mpc' = "returned"
    /\ summary' = [succeeded |-> success, failed |-> failed]
    /\ UNCHANGED <<envVars, next, queue, success, failed, collected,
                   interrupted, cancelAt, acct>>

\* variant: the handler only logs
HandleInterruptLogOnly(m) == m

\* handle_interrupt: raise SystemExit(0) in the main thread
HandleInterrupt(m) == "exiting"

\* SIGINT is delivered while the main thread is inside process_wallets
Interrupt ==
    /\ ~interrupted
    /\ mpc \in {"submit", "collect"}
    /\ interrupted' = TRUE
    /\ cancelAt' = next
    /\ mpc' = HandleInterrupt(mpc)
    /\ UNCHANGED <<envVars, next, queue, success, failed, collected,
                   summary, acct>>

\* SystemExit leaves the with block: shutdown(wait=True) joins the workers,
\* which first run every work item already queued
Exit ==
    /\ mpc = "exiting"
    /\ \A i \in Wallets : i < next => Finished(i)
    /\ mpc' = "exited"
    /\ UNCHANGED <<envVars, next, queue, success, failed, collected,
                   summary, interrupted, cancelAt, acct>>

-----------------------------------------------------------------------------

InitState ==
    /\ mpc = "submit"
    /\ next = 0
    /\ queue = <<>>
    /\ success = 0
    /\ failed = 0
    /\ collected = {}
    /\ summary = [succeeded |-> NoVal, failed |-> NoVal]
    /\ interrupted = FALSE
    /\ cancelAt = NoVal
    /\ acct = [i \in Wallets |-> NewAcct]
    /\ probe = <<>>

\* one wallet, every configuration, every answer of the node
Init ==
    /\ total = 1
    /\ cfg \in Configs(0 .. MaxRetryLimit, {1})
    /\ node = FullNode
    /\ InitState

\* several wallets on a pool of one or two threads, default fee and retry
\* switches, a node that answers one value per call or drops the connection
InitPool ==
    /\ total \in 2 .. NumWallets
    /\ cfg \in [DRY_RUN : {FALSE}, USE_EIP1559 : {TRUE}, WAIT_FOR_RECEIPT : BOOLEAN,
                RETRY_LIMIT : {1}, GAS_PRICE_GWEI : {0}, MAX_WORKERS : {1, 2}]
    /\ node = SmallNode
    /\ InitState

Step(i) ==
    \/ Start(i)
    \/ GetBalance(i)
    \/ EstimateFee(i)
    \/ GetNonce(i)
    \/ Wake(i)
    \/ BuildTx(i)
    \/ Sign(i)
    \/ Broadcast(i)
    \/ WaitReceipt(i)
    \/ TxDelay(i)
    \/ Collect(i)

Next ==
    \/ Submit
    \/ Summary
    \/ Interrupt
    \/ Exit
    \/ \E i \in Wallets : Step(i)

Spec == Init /\ [][Next]_vars

SpecPool == InitPool /\ [][Next]_vars

\* get_eip1559_fees as a function of the node's three answers
InitFees ==
    /\ total = 1
    /\ cfg \in Configs({3}, {10})
    /\ node = FullNode
    /\ InitState

\* one call of get_eip1559_fees: the answers and the result are kept
ProbeFees ==
    /\ probe = <<>>
    /\ \E hist \in Resp(node.prices), gp \in Resp(node.prices), tip \in Resp(node.tips) :
         probe' = <<[hist |-> hist, gp |-> gp, tip |-> tip,
                     fees |-> get_eip1559_fees(hist, gp, tip)]>>
    /\ UNCHANGED <<cfg, node, total, mainVars, acct>>

NextFees == ProbeFees

SpecFees == InitFees /\ [][NextFees]_vars

-----------------------------------------------------------------------------
(* Properties *)

Loaded == {i \in Wallets : i < total}

\* the outcome the answers given to wallet i alone dictate
OwnOutcome(i) ==
    LET a == acct[i]
    IN  IF a.raised # "none" THEN Outcome("Failed", NoVal, a.raised)
        ELSE IF a.balance = 0 THEN Outcome("Skipped", NoVal, "ZeroBalance")
        ELSE IF a.est_fee >= a.balance
             THEN Outcome("Skipped", NoVal, "InsufficientFunds")
        ELSE IF DRY_RUN THEN Outcome("DryRun", a.balance - a.est_fee, "none")
        ELSE Outcome("Sent", a.balance - a.est_fee, "none")

\* C1: for every wallet whose run logged Sent, the value of the broadcast
\* transaction is balance - gas_limit * (price used for sizing), is positive,
\* and is the value reported.
C1_SentValueExact ==
    \A i \in Wallets :
        acct[i].outcome.tag = "Sent" =>
            /\ acct[i].sent.value = acct[i].balance - acct[i].gas_limit * acct[i].price
            /\ acct[i].sent.value > 0
            /\ acct[i].outcome.value = acct[i].sent.value
            /\ acct[i].sent.gas = acct[i].gas_limit

C1_Witness ==
    \E i \in Wallets :
        /\ acct[i].outcome.tag = "Sent"
        /\ acct[i].sent.value = 1
        /\ acct[i].balance = acct[i].est_fee + 1

\* C2: a wallet whose fetched balance is 0 ends as Skipped(ZeroBalance) and the
\* only RPC call of its run is get_balance.
C2_ZeroBalanceSkips ==
    \A i \in Wallets :
        acct[i].balance = 0 =>
            /\ acct[i].pc = "done"
            /\ acct[i].outcome = Outcome("Skipped", NoVal, "ZeroBalance")
            /\ acct[i].calls = {"get_balance"}
            /\ acct[i].signs = 0 /\ acct[i].sends = 0

C2_Witness ==
    \E i \in Wallets :
        /\ acct[i].balance = 0
        /\ acct[i].outcome.info = "ZeroBalance"
        /\ mpc = "returned"

\* C3: whenever the quoted fee is >= the fetched balance the run ends as
\* Skipped(InsufficientFunds) and neither sign nor broadcast is called.
C3_InsufficientSkips ==
    \A i \in Wallets :
        (acct[i].est_fee # NoVal /\ acct[i].est_fee >= acct[i].balance) =>
            /\ acct[i].pc = "done"
            /\ acct[i].outcome = Outcome("Skipped", NoVal, "InsufficientFunds")
            /\ acct[i].calls \cap {"sign_transaction", "send_raw_transaction"} = {}
            /\ acct[i].signs = 0 /\ acct[i].sends = 0

C3_Witness ==
    \E i \in Wallets :
        /\ acct[i].est_fee = acct[i].balance
        /\ acct[i].outcome.info = "InsufficientFunds"

\* the trace of a retry call whose operation fails k times and then succeeds
RECURSIVE BackoffTrace(_)
BackoffTrace(k) ==
    IF k = 0 THEN <<INVOKE>>
    ELSE BackoffTrace(k - 1)
         \o <<(IF 2 ^ (k - 1) < 30 THEN 2 ^ (k - 1) ELSE 30), INVOKE>>

Invocations(log) == Cardinality({n \in 1 .. Len(log) : log[n] = INVOKE})

\* C4: a retry call that returns after k failed invocations has k <= RETRY_LIMIT,
\* made k + 1 invocations and slept k times, the i-th sleep lasting
\* min(2^i, 30) and lying between invocation i and invocation i + 1.
C4_RetryBackoff ==
    \A i \in Wallets :
        acct[i].rstat = "returned" =>
            /\ acct[i].fails <= RETRY_LIMIT
            /\ acct[i].rlog = BackoffTrace(acct[i].fails)
            /\ Invocations(acct[i].rlog) = acct[i].fails + 1

C4_Witness ==
    \E i \in Wallets :
        /\ acct[i].rstat = "returned"
        /\ acct[i].fails = 6
        /\ acct[i].rlog[12] = 30

\* C5: a retry call that re-raises made exactly RETRY_LIMIT + 1 invocations,
\* all failed, slept RETRY_LIMIT times and not after the last failure, and the
\* run ends Failed with the error of the last invocation.
C5_RetryExhausted ==
    \A i \in Wallets :
        acct[i].rstat = "raised" =>
            /\ acct[i].fails = RETRY_LIMIT + 1
            /\ Invocations(acct[i].rlog) = RETRY_LIMIT + 1
            /\ Len(acct[i].rlog) = 2 * RETRY_LIMIT + 1
            /\ acct[i].rlog[Len(acct[i].rlog)] = INVOKE
            /\ ~acct[i].sleeping
            /\ acct[i].pc = "done"
            /\ acct[i].outcome = Outcome("Failed", NoVal, acct[i].err)

C5_Witness ==
    \E i \in Wallets :
        /\ acct[i].rstat = "raised"
        /\ RETRY_LIMIT = 2
        /\ acct[i].fails = 3
        /\ acct[i].outcome.tag = "Failed"

\* C6: an error raised in one wallet's run is caught in that run and logged
\* as Failed for that wallet; a wallet is Failed only on an error of its own
\* calls; every finished wallet has the outcome its own answers dictate; no
\* future carries an exception to process_wallets.
C6_FailureIsolation ==
    \A i \in Wallets :
        /\ acct[i].raised # "none" => acct[i].outcome = Outcome("Failed", NoVal, acct[i].raised)
        /\ acct[i].outcome.tag = "Failed" => acct[i].raised # "none"
        /\ acct[i].rstat = "raised" => acct[i].fails = RETRY_LIMIT + 1
        /\ Finished(i) => acct[i].outcome = OwnOutcome(i)
        /\ acct[i].fut # "exception"

C6_Witness ==
    \E i, j \in Loaded :
        /\ acct[i].outcome.tag = "Failed"
        /\ acct[i].rstat = "raised"
        /\ acct[j].outcome.tag = "Sent"
        /\ Finished(j)
        /\ mpc = "returned"

\* C7: an invocation that raises a Fatal error is never followed by a backoff
\* sleep (the error is propagated at once).
C7_FatalNotRetried ==
    \A i \in Wallets : acct[i].sleeping => acct[i].err \notin Fatal

\* C8: when SIGINT arrives before wallet k is submitted, wallets k..N-1 never
\* start, and once the main thread has left the pool every wallet 0..k-1 has
\* finished with the outcome its own answers dictate.
C8_CancelAtDispatch ==
    interrupted =>
        /\ \A i \in Loaded : i >= cancelAt => acct[i].pc = "unsubmitted"
        /\ mpc = "exited" =>
              \A i \in Loaded : i < cancelAt =>
                  Finished(i) /\ acct[i].outcome = OwnOutcome(i)

C8_Witness ==
    /\ interrupted
    /\ cancelAt = 1
    /\ mpc = "exited"
    /\ acct[0].outcome.tag = "Sent"
    /\ acct[1].pc = "unsubmitted"

\* C9: a run that is about to sign after SIGINT has arrived does not sign.
C9_NoSignAfterCancel ==
    [][\A i \in Wallets :
          (interrupted /\ acct[i].pc = "sign") => acct'[i].signs = acct[i].signs]_vars

\* C10: with DRY_RUN no run signs or broadcasts; a run that raises no error
\* ends DryRun(balance - fee) when balance > fee, and Skipped otherwise.
C10_DryRun ==
    DRY_RUN =>
        \A i \in Wallets :
            /\ acct[i].signs = 0 /\ acct[i].sends = 0
            /\ acct[i].calls \cap {"sign_transaction", "send_raw_transaction"} = {}
            /\ acct[i].sent = NoTx
            /\ (Finished(i) /\ acct[i].raised = "none") =>
                  acct[i].outcome =
                    IF acct[i].balance = 0
                    THEN Outcome("Skipped", NoVal, "ZeroBalance")
                    ELSE IF acct[i].gas_limit * acct[i].price >= acct[i].balance
                         THEN Outcome("Skipped", NoVal, "InsufficientFunds")
                         ELSE Outcome("DryRun",
                                      acct[i].balance - acct[i].gas_limit * acct[i].price,
                                      "none")

C10_Witness ==
    \E i \in Wallets :
        /\ DRY_RUN
        /\ acct[i].outcome.tag = "DryRun"
        /\ acct[i].outcome.value > 0
        /\ acct[i].tx.nonce # NoVal

\* C11: a wallet is submitted once, signs at most once and broadcasts at most
\* once; after a successful broadcast its run is only in the receipt wait,
\* the pacing sleep or finished, where nothing is signed or sent.
C11_AtMostOneBroadcast ==
    \A i \in Wallets :
        /\ acct[i].submits <= 1
        /\ acct[i].pc # "unsubmitted" => acct[i].submits = 1
        /\ acct[i].signs <= 1
        /\ acct[i].sends <= 1
        /\ acct[i].sends = 1 =>
              /\ acct[i].signs = 1
              /\ acct[i].pc \in {"wait_receipt", "tx_delay", "done"}

C11_Witness ==
    \E i \in Wallets :
        /\ acct[i].sends = 1
        /\ acct[i].signs = 1
        /\ acct[i].submits = 1
        /\ acct[i].receipt = "FAILED"
        /\ Finished(i)

Tagged(tag) == {i \in Loaded : acct[i].outcome.tag = tag}

\* C12: the logged summary counts the wallets by outcome: the first count is
\* the number of Sent wallets and the failed count the number of Failed ones.
C12_SummaryByTag ==
    mpc = "returned" =>
        /\ summary.succeeded = Cardinality(Tagged("Sent"))
        /\ summary.failed = Cardinality(Tagged("Failed"))

\* C13: once the broadcast has succeeded the outcome is Sent with the value of
\* the transaction and stays so, whatever the receipt wait returns or raises;
\* the receipt only sets the secondary status.
C13_SentStaysSent ==
    \A i \in Wallets :
        acct[i].sends >= 1 =>
            /\ acct[i].outcome = Outcome("Sent", acct[i].sent.value, "none")
            /\ acct[i].raised = "none"
            /\ acct[i].fut # "exception"
            /\ acct[i].receipt \in {"none", "SUCCESS", "FAILED", "wait failed"}
            /\ acct[i].receipt # "none" => WAIT_FOR_RECEIPT

C13_Witness ==
    \E i \in Wallets :
        /\ acct[i].sends = 1
        /\ acct[i].receipt = "wait failed"
        /\ acct[i].outcome.tag = "Sent"
        /\ Finished(i)

\* C14: once process_wallets is over, with or without an interrupt, the
\* summary line has been logged.
C14_SummaryProduced ==
    mpc \in {"returned", "exited"} => summary.succeeded # NoVal

\* C15: never more than MAX_WORKERS runs execute at once, and while a thread
\* is free a queued wallet can start even if every executing run is in a
\* backoff sleep or in the pacing sleep.
C15_BoundedConcurrency ==
    /\ NumRunning <= MAX_WORKERS
    /\ (queue # <<>> /\ NumRunning < MAX_WORKERS) => ENABLED Start(Head(queue))

C15_Witness ==
    \E i, j \in Loaded :
        /\ i # j
        /\ acct[i].sleeping
        /\ Running(j)
        /\ NumRunning = MAX_WORKERS
        /\ queue = <<>>

\* C16: with attempts remaining, a broadcast that fails with a retryable
\* error (a timeout) is retried: that failure does not make the run Failed.
C16_BroadcastRetried ==
    [][\A i \in Wallets :
          (acct[i].pc = "send_raw_transaction" /\ RETRY_LIMIT >= 1) =>
              acct'[i].outcome # Outcome("Failed", NoVal, "Timeout")]_vars

Probes == {probe[k] : k \in 1 .. Len(probe)}

\* C17 as stated: maxFeePerGas = 2 * base + priority, the base being the fee
\* history's base fee or else the value of get_legacy_gas_price() (the
\* configured price when set, else the network price), the priority fee the
\* node's suggestion or else the configured default; the call succeeds
\* whenever such a base is available.
C17_FallbackLegacy ==
    \A p \in Probes :
        LET base == IF p.hist.ok THEN p.hist ELSE get_legacy_gas_price(p.gp)
            tip == IF p.tip.ok THEN p.tip.val ELSE PRIORITY_FEE_GWEI * GWEI
        IN  base.ok =>
              /\ p.fees.ok
              /\ p.fees.maxFeePerGas = 2 * base.val + tip
              /\ p.fees.maxPriorityFeePerGas = tip

\* C17 amended: the fallback base is the network gas price, whether or not a
\* price is configured; the call raises exactly when both the fee history
\* and the gas price fail, whatever the priority-fee call does.
C17_FallbackNetwork ==
    \A p \in Probes :
        LET base == IF p.hist.ok THEN p.hist ELSE p.gp
            tip == IF p.tip.ok THEN p.tip.val ELSE PRIORITY_FEE_GWEI * GWEI
        IN  /\ p.fees.ok <=> base.ok
            /\ base.ok =>
                  /\ p.fees.maxFeePerGas = 2 * base.val + tip
                  /\ p.fees.maxPriorityFeePerGas = tip
            /\ ~base.ok => p.fees.err = p.gp.err

C17_Witness ==
    \E p \in Probes :
        /\ GAS_PRICE_GWEI > 0
        /\ ~p.hist.ok /\ p.gp.ok /\ ~p.tip.ok
        /\ p.fees.ok
        /\ p.fees.maxFeePerGas = 2 * p.gp.val + PRIORITY_FEE_GWEI * GWEI

\* C18: every quoted gas limit, and the gas field of every built
\* transaction, is at least 21000 and at least the node's estimate; above
\* 21000 it is the buffered estimate (23/20 of the estimate, cut to an
\* integer), and it is 21000 only when the buffered estimate is not larger.
C18_GasLimitFloor ==
    \A i \in Wallets :
        acct[i].gas_limit # NoVal =>
            LET g == acct[i].base_gas
                L == acct[i].gas_limit
            IN  /\ L >= 21000
                /\ L >= g
                /\ L > 21000 => (20 * L <= 23 * g /\ 23 * g < 20 * (L + 2))
                /\ L = 21000 => 23 * g < 20 * (21000 + 2)
                /\ acct[i].tx.gas \in {NoVal, L}
                /\ acct[i].sent.gas \in {NoVal, L}

C18_Witness ==
    \E i \in Wallets :
        /\ acct[i].base_gas = 18000
        /\ acct[i].gas_limit = 21000
        /\ acct[i].sent.gas = 21000

\* C19: every signed transaction is affordable with the fees it carries:
\* value + gas * maxFeePerGas (gasPrice in legacy mode) <= fetched balance.
C19_FeesAsSized ==
    \A i \in Wallets :
        acct[i].signs >= 1 =>
            acct[i].tx.value
              + acct[i].tx.gas * (IF USE_EIP1559 THEN acct[i].tx.maxFeePerGas
                                  ELSE acct[i].tx.gasPrice)
              <= acct[i].balance

\* C20: every wallet is submitted at most once and, when process_wallets
\* returns, exactly once; succeeded + failed is the number of futures
\* collected, never more than the number of finished runs, and equals the
\* number of wallets in the summary.
C20_CountedOnce ==
    /\ \A i \in Wallets : acct[i].submits <= 1
    /\ success + failed = Cardinality(collected)
    /\ collected \subseteq {i \in Loaded : Finished(i)}
    /\ success + failed <= Cardinality({i \in Loaded : Finished(i)})
    /\ mpc = "returned" =>
          /\ \A i \in Loaded : acct[i].submits = 1
          /\ success + failed = total
          /\ summary.succeeded + summary.failed = total

C20_Witness ==
    /\ mpc = "returned"
    /\ total >= 2
    /\ summary.succeeded + summary.failed = total
    /\ \E i, j \in Loaded : acct[i].outcome.tag = "Failed" /\ acct[j].outcome.tag = "Sent"

====
